---- MODULE Spec2Model ----
(***************************************************************************)
(* RainViewer Live Radar desktop GUI (map.py): the alert synchronisation   *)
(* logic of RainViewerGUI.  The widgets, the QTimer, the alerts tree, the  *)
(* status label and the blocking HTTP calls of fetch_alerts are modelled   *)
(* as a state machine.                                                     *)
(*                                                                         *)
(* Text is modelled as a sequence of tokens (<<"FL">>, <<"a", "/", "b">>); *)
(* the empty text is <<>>.  Coordinates are integers in units of 1e-4      *)
(* degree (the spin boxes hold 4 decimals).                                *)
(***************************************************************************)
EXTENDS Integers, Sequences, FiniteSets, TLC

VARIABLES
    ui,            \* the value of every input widget
    web,           \* the URL loaded in the QWebEngineView
    alert_timer,   \* the QTimer: active, interval (ms), elapsed (ms)
    alerts_view,   \* rows of the QTreeWidget
    alerts_status, \* text of the status QLabel
    inflight,      \* HTTP requests sent and not yet answered
    frame,         \* local variables of the running fetch_alerts call
    todo,          \* rest of the handler that called fetch_alerts
    queued,        \* clicks received while the GUI thread was blocked
    trig,          \* history: what started the running (or last) fetch pass
    log,           \* history: requests and answers of that pass, in order
    done           \* history: how the last finished pass ended

vars == <<ui, web, alert_timer, alerts_view, alerts_status, inflight, frame,
          todo, queued, trig, log, done>>

-----------------------------------------------------------------------------
(* Bounds of the model *)

\* seconds of wall-clock time that pass in one Tick step
TickSeconds == 60

\* clicks the event queue holds while the GUI thread is blocked
MaxQueued == 1

-----------------------------------------------------------------------------
(* Text and JSON values *)

T(s) == <<s>>

\* the placeholder text of populate_alerts (an em dash in the source)
Dash == T("-")

JNull == [t |-> "null"]
JStr(s) == [t |-> "str", s |-> s]
JNum(n) == [t |-> "num", n |-> n]
JList(q) == [t |-> "list", items |-> q]
JDict(f) == [t |-> "dict", m |-> f]
EmptyDict == JDict(<<>>)

\* Python truthiness of a JSON value
Truthy(j) ==
    CASE j.t = "null" -> FALSE
      [] j.t = "str" -> j.s # <<>>
      [] j.t = "num" -> j.n # 0
      [] j.t = "list" -> j.items # <<>>
      [] j.t = "dict" -> DOMAIN j.m # {}

\* x or y
PyOr(x, y) == IF Truthy(x) THEN x ELSE y

\* d.get(k, default) on a dict; the caller checks d.t = "dict" first
Get(d, k, default) == IF k \in DOMAIN d.m THEN d.m[k] ELSE default

\* results of a Python expression: a value or a raised exception
Ok(v) == [ok |-> TRUE, val |-> v]
Raise(cls, msg) == [ok |-> FALSE, cls |-> cls, msg |-> msg]

\* <obj>.get where obj may be anything: AttributeError unless a dict
PyGet(d, k, default) ==
    IF d.t = "dict" THEN Ok(Get(d, k, default))
    ELSE Raise("AttributeError", [m |-> "object has no attribute 'get'", of |-> d.t])

-----------------------------------------------------------------------------
(* DEFAULTS and the widgets *)

DEFAULTS ==
    [lat |-> 497847, lon |-> -949921, zoom |-> 5, layer |-> "radar",
     c |-> 3, o |-> 83, lm |-> TRUE, sm |-> TRUE, sn |-> TRUE, ts |-> 2,
     alerts_auto |-> TRUE, alerts_interval_sec |-> 120,
     alerts_mode |-> "point", alerts_area |-> T("FL"),
     alerts_user_agent |-> T("dc404-weathermap (contact: you@example.com)")]

NWS_API == T("https://api.weather.gov")

\* widgets wired to live_update
LiveKeys == {"lat", "lon", "zoom", "layer", "c", "o", "lm", "sm", "sn", "ts"}

\* widgets with no hook of their own
PlainKeys == {"alerts_mode", "alerts_area", "ua_input"}

\* The model is checked in two environments.  In the first the user works
\* every kind of widget and the provider gives few answers; in the second the
\* provider gives every kind of answer and the user changes few widgets.
WidgetValues ==
    [lat |-> {DEFAULTS.lat, -5},
     lon |-> {DEFAULTS.lon, 1800000},
     zoom |-> {DEFAULTS.zoom, 12},
     layer |-> {DEFAULTS.layer},
     c |-> {DEFAULTS.c},
     o |-> {DEFAULTS.o},
     lm |-> {DEFAULTS.lm},
     sm |-> {DEFAULTS.sm},
     sn |-> {DEFAULTS.sn},
     ts |-> {DEFAULTS.ts},
     alerts_mode |-> {"point", "state", "zone"},
     alerts_area |-> {DEFAULTS.alerts_area},
     alerts_auto |-> BOOLEAN,
     alerts_interval |-> {60, DEFAULTS.alerts_interval_sec},
     ua_input |-> {DEFAULTS.alerts_user_agent}]

ProviderWidgetValues ==
    [WidgetValues EXCEPT !.lon = {DEFAULTS.lon}, !.zoom = {DEFAULTS.zoom},
                         !.alerts_interval = {DEFAULTS.alerts_interval_sec}]

\* zone mode, auto-refresh off, two latitudes
ZoneWidgetValues ==
    [ProviderWidgetValues EXCEPT !.alerts_mode = {"zone"}, !.alerts_auto = {FALSE}]

\* values of the ten map widgets, of the mode (state or point) and the state
MapWidgetValues ==
    [lat |-> {DEFAULTS.lat},
     lon |-> {DEFAULTS.lon},
     zoom |-> {1, DEFAULTS.zoom, 12},
     layer |-> {"radar", "satellite"},
     c |-> {DEFAULTS.c, 9},
     o |-> {DEFAULTS.o, 0},
     lm |-> BOOLEAN,
     sm |-> BOOLEAN,
     sn |-> BOOLEAN,
     ts |-> {DEFAULTS.ts, 4},
     alerts_mode |-> {"state", "point"},
     alerts_area |-> {DEFAULTS.alerts_area, T("PR")},
     alerts_auto |-> {FALSE},
     alerts_interval |-> {DEFAULTS.alerts_interval_sec},
     ua_input |-> {DEFAULTS.alerts_user_agent}]

\* the settings load_settings can return: DEFAULTS overlaid by a stored file
LoadedSettings(values) ==
    {[DEFAULTS EXCEPT !.alerts_auto = a, !.alerts_mode = m,
                      !.alerts_interval_sec = i] :
        a \in values.alerts_auto, m \in values.alerts_mode,
        i \in values.alerts_interval}

\* the settings of a stored file that sets the zoom as well
ZoomSettings(values, zooms) ==
    {[s EXCEPT !.zoom = z] : s \in LoadedSettings(values), z \in zooms}

\* setValue(v) on a spin box or slider of range lo..hi: the value it holds
SetValue(lo, hi, v) == IF v < lo THEN lo ELSE IF v > hi THEN hi ELSE v

\* the widgets as build_ui fills them from the settings
build_ui(s) ==
    [lat |-> SetValue(-900000, 900000, s.lat),
     lon |-> SetValue(-1800000, 1800000, s.lon),
     zoom |-> SetValue(1, 12, s.zoom), layer |-> s.layer,
     c |-> s.c, o |-> SetValue(0, 100, s.o),
     lm |-> s.lm, sm |-> s.sm, sn |-> s.sn, ts |-> s.ts,
     alerts_mode |-> s.alerts_mode, alerts_area |-> s.alerts_area,
     alerts_auto |-> s.alerts_auto,
     alerts_interval |-> SetValue(30, 900, s.alerts_interval_sec),
     ua_input |-> s.alerts_user_agent]

-----------------------------------------------------------------------------
(* Formatting and URLs *)

Abs(n) == IF n < 0 THEN -n ELSE n

\* f"{v:.4f}" of a value held in units of 1e-4
Fmt4(v) == [neg |-> v < 0, whole |-> Abs(v) \div 10000, frac |-> Abs(v) % 10000]

Max(a, b) == IF a > b THEN a ELSE b
Min(a, b) == IF a < b THEN a ELSE b

\* build_src without the clamp of the zoom
build_src_noclamp(u) ==
    [base |-> T("https://www.rainviewer.com/map.html"),
     query |-> << <<"loc", <<Fmt4(u.lat), Fmt4(u.lon), u.zoom>> >>,
                  <<"oCS", "1">>,
                  <<"c", u.c>>,
                  <<"o", u.o>>,
                  <<"lm", IF u.lm THEN "1" ELSE "0">>,
                  <<"layer", u.layer>>,
                  <<"sm", IF u.sm THEN "1" ELSE "0">>,
                  <<"sn", IF u.sn THEN "1" ELSE "0">>,
                  <<"ts", u.ts>> >>]

build_src(u) ==
    [base |-> T("https://www.rainviewer.com/map.html"),
     query |-> << <<"loc", <<Fmt4(u.lat), Fmt4(u.lon), Max(1, Min(12, u.zoom))>> >>,
                  <<"oCS", "1">>,
                  <<"c", u.c>>,
                  <<"o", u.o>>,
                  <<"lm", IF u.lm THEN "1" ELSE "0">>,
                  <<"layer", u.layer>>,
                  <<"sm", IF u.sm THEN "1" ELSE "0">>,
                  <<"sn", IF u.sn THEN "1" ELSE "0">>,
                  <<"ts", u.ts>> >>]

\* text.strip(): blank tokens at both ends removed
RECURSIVE LStrip(_)
LStrip(s) == IF s # <<>> /\ Head(s) = " " THEN LStrip(Tail(s)) ELSE s
RECURSIVE RStrip(_)
RStrip(s) ==
    IF s # <<>> /\ s[Len(s)] = " " THEN RStrip(SubSeq(s, 1, Len(s) - 1)) ELSE s
Strip(s) == RStrip(LStrip(s))

nws_headers(u) ==
    [UserAgent |-> IF Strip(u.ua_input) # <<>> THEN Strip(u.ua_input)
                   ELSE DEFAULTS.alerts_user_agent,
     Accept |-> "application/geo+json"]

\* the URL of fetch_alerts in point mode
PointUrl(u) ==
    [base |-> NWS_API, path |-> "/alerts/active",
     key |-> "point", val |-> <<Fmt4(u.lat), Fmt4(u.lon)>>]

\* the URL of state mode keyed by the default state, not the one picked
AreaUrl_default(u) ==
    [base |-> NWS_API, path |-> "/alerts/active",
     key |-> "area", val |-> DEFAULTS.alerts_area]

\* the URL of fetch_alerts in state mode
AreaUrl(u) ==
    [base |-> NWS_API, path |-> "/alerts/active",
     key |-> "area", val |-> u.alerts_area]

\* the /points lookup of zone mode
PointsUrl(lat, lon) ==
    [base |-> NWS_API, path |-> "/points", key |-> "", val |-> <<lat, lon>>]

\* county.split('/')[-1]: the tokens after the last "/"
RECURSIVE SplitLast(_)
SplitLast(s) ==
    IF \E i \in 1..Len(s) : s[i] = "/"
    THEN SplitLast(Tail(s))
    ELSE s

ZoneUrl(county) ==
    [base |-> NWS_API, path |-> "/alerts/active",
     key |-> "zone", val |-> SplitLast(county)]

\* the fallback URL with the coordinates in the wrong order
ZoneFallbackUrl_swapped(lat, lon) ==
    [base |-> NWS_API, path |-> "/alerts/active",
     key |-> "point", val |-> <<lon, lat>>]

\* the fallback URL of zone mode, from the locals lat and lon
ZoneFallbackUrl(lat, lon) ==
    [base |-> NWS_API, path |-> "/alerts/active",
     key |-> "point", val |-> <<lat, lon>>]

\* the URL of the final else branch
AllUrl == [base |-> NWS_API, path |-> "/alerts/active", key |-> "", val |-> <<>>]

Request(url, hdrs, timeout, role) ==
    [url |-> url, headers |-> hdrs, timeout |-> timeout, role |-> role]

-----------------------------------------------------------------------------
(* HTTP answers: requests.get, raise_for_status, json *)

\* requests.get(url, ...): the answer, or the exception of a failed exchange
requests_get(resp) ==
    IF resp.net = "ok" THEN Ok(resp)
    ELSE Raise(resp.net, [m |-> IF resp.net = "Timeout" THEN "Read timed out"
                                ELSE "Failed to establish a new connection"])

\* r.raise_for_status()
raise_for_status(resp, url) ==
    IF resp.code >= 400 /\ resp.code < 600
    THEN Raise("HTTPError", [m |-> "Error for url", code |-> resp.code, url |-> url])
    ELSE Ok(resp)

\* r.json()
json(resp) ==
    IF resp.json THEN Ok(resp.doc)
    ELSE Raise("JSONDecodeError", [m |-> "Expecting value"])

\* the three calls in a row, as lines 315-317 and 326-328 make them
Exchange(resp, url) ==
    LET a == requests_get(resp) IN
    IF ~a.ok THEN a
    ELSE LET b == raise_for_status(resp, url) IN
         IF ~b.ok THEN b ELSE json(resp)

-----------------------------------------------------------------------------
(* populate_alerts and fmt_time *)

IsoDateTimes == {"2024-05-01T12:00:00"}
IsoOffsets == {"+00:00", "-05:00"}

\* t.replace("Z", "+00:00")
ReplaceZ(s) == [i \in 1..Len(s) |-> IF s[i] = "Z" THEN "+00:00" ELSE s[i]]

\* datetime.fromisoformat accepts the text
IsIso(s) ==
    \/ Len(s) = 1 /\ s[1] \in IsoDateTimes
    \/ Len(s) = 2 /\ s[1] \in IsoDateTimes /\ s[2] \in IsoOffsets

\* f"{x}" of a value that is no text
PyStr(j) == <<"str()", j.t>>

\* fmt_time returning the text it tried to parse, not the text it was given
fmt_time_replaced(t) ==
    IF ~Truthy(t) THEN <<>>
    ELSE IF t.t # "str" THEN PyStr(t)
    ELSE IF IsIso(ReplaceZ(t.s))
         THEN <<"%b %d %Y, %I:%M %p">> \o ReplaceZ(t.s)
         ELSE ReplaceZ(t.s)

\* fmt_time(t), t a JSON value: the local rendering, or t unchanged
fmt_time(t) ==
    IF ~Truthy(t) THEN <<>>
    ELSE IF t.t # "str" THEN PyStr(t)
    ELSE IF IsIso(ReplaceZ(t.s))
         THEN <<"%b %d %Y, %I:%M %p">> \o ReplaceZ(t.s)
         ELSE t.s

\* the row QTreeWidgetItem([...]) of one feature, or the exception raised
MakeItem(f) ==
    LET p == PyGet(f, "properties", EmptyDict) IN
    IF ~p.ok THEN p
    ELSE IF p.val.t # "dict"
    THEN Raise("AttributeError", [m |-> "object has no attribute 'get'", of |-> p.val.t])
    ELSE LET props == p.val
             event == Get(props, "event", JStr(Dash))
             sev == Get(props, "severity", JStr(Dash))
             urg == Get(props, "urgency", JStr(Dash))
             cert == Get(props, "certainty", JStr(Dash))
             ends == PyOr(PyOr(Get(props, "ends", JNull), Get(props, "expires", JNull)),
                          Get(props, "effective", JNull))
             ends_text == fmt_time(ends)
             area == Get(props, "areaDesc", JStr(<<>>))
             office == Get(props, "senderName", JStr(<<>>))
             col5 == IF ends_text # <<>> THEN ends_text ELSE Dash
             col6 == IF Truthy(office) THEN office ELSE area
             url == PyOr(PyOr(Get(props, "id", JNull), Get(f, "id", JNull)),
                         Get(props, "@id", JNull))
         IN  IF \E x \in {event, sev, urg, cert, col6} : x.t # "str"
             THEN Raise("TypeError", [m |-> "QTreeWidgetItem: unsupported argument"])
             ELSE Ok([event |-> event.s, severity |-> sev.s, urgency |-> urg.s,
                      certainty |-> cert.s, ends |-> col5, area |-> col6.s,
                      url |-> IF Truthy(url) THEN url ELSE JNull])

RECURSIVE SetToSeq(_)
SetToSeq(S) ==
    IF S = {} THEN <<>> ELSE LET x == CHOOSE y \in S : TRUE IN <<x>> \o SetToSeq(S \ {x})

\* what "for f in feats" yields, feats truthy; an exception when not iterable
Iterate(feats) ==
    CASE feats.t = "list" -> Ok(feats.items)
      [] feats.t = "str" -> Ok([i \in 1..Len(feats.s) |-> JStr(T(feats.s[i]))])
      [] feats.t = "dict" ->
            Ok(LET ks == SetToSeq(DOMAIN feats.m)
               IN  [i \in 1..Len(ks) |-> JStr(T(ks[i]))])
      [] OTHER -> Raise("TypeError", [m |-> "object is not iterable", of |-> feats.t])

\* the loop of populate_alerts: rows added until a feature raises
RECURSIVE AddItems(_, _)
AddItems(feats, rows) ==
    IF feats = <<>> THEN [view |-> rows, res |-> Ok(JNull)]
    ELSE LET r == MakeItem(Head(feats)) IN
         IF r.ok THEN AddItems(Tail(feats), Append(rows, r.val))
         ELSE [view |-> rows, res |-> r]

\* populate_alerts without its clear()
Clear_keep(rows) == rows

\* alerts_view.clear()
Clear(rows) == <<>>

\* populate_alerts(data) on a tree holding the rows old: the rows left in the
\* tree and how the call ended.  clear() comes first, so the old rows are gone
\* however the call ends.
populate_alerts(old, data) ==
    LET cleared == Clear(old)
        g == PyGet(data, "features", JList(<<>>))
    IN  IF ~g.ok THEN [view |-> cleared, res |-> g]
        ELSE LET feats == PyOr(g.val, JList(<<>>))
                 it == IF Truthy(feats) THEN Iterate(feats) ELSE Ok(<<>>)
             IN  IF ~it.ok THEN [view |-> cleared, res |-> it]
                 ELSE AddItems(it.val, cleared)

\* len(x)
PyLen(x) ==
    CASE x.t = "list" -> Ok(Len(x.items))
      [] x.t = "str" -> Ok(Len(x.s))
      [] x.t = "dict" -> Ok(Cardinality(DOMAIN x.m))
      [] OTHER -> Raise("TypeError", [m |-> "object has no len()", of |-> x.t])

\* count = len(data.get("features", []))
CountFeatures(data) ==
    LET g == PyGet(data, "features", JList(<<>>)) IN
    IF ~g.ok THEN g ELSE PyLen(g.val)

-----------------------------------------------------------------------------
(* The answers the provider gives in the model *)

F_full ==
    JDict(("id" :> JStr(T("feature-1")))
       @@ ("properties" :> JDict(
              ("event" :> JStr(T("Tornado Warning")))
           @@ ("severity" :> JStr(T("Extreme")))
           @@ ("urgency" :> JStr(T("Immediate")))
           @@ ("certainty" :> JStr(T("Observed")))
           @@ ("ends" :> JStr(<<"2024-05-01T12:00:00", "Z">>))
           @@ ("expires" :> JStr(<<"2024-05-01T12:00:00", "-05:00">>))
           @@ ("areaDesc" :> JStr(T("Polk")))
           @@ ("senderName" :> JStr(T("NWS Tampa Bay")))
           @@ ("id" :> JStr(T("urn:alert-1"))))))

F_sparse ==
    JDict(("id" :> JStr(T("feature-2")))
       @@ ("properties" :> JDict(
              ("event" :> JStr(T("Flood Watch")))
           @@ ("ends" :> JNull)
           @@ ("expires" :> JStr(T("soon")))
           @@ ("areaDesc" :> JStr(T("Lee"))))))

F_bare == JDict("properties" :> JDict("@id" :> JStr(T("urn:alert-3"))))

F_nullprops == JDict("properties" :> JNull)

\* "ends" empty, no "expires", an "effective" that is no ISO time
F_late ==
    JDict("properties" :> JDict(
              ("event" :> JStr(T("Heat Advisory")))
           @@ ("ends" :> JStr(<<>>))
           @@ ("effective" :> JStr(<<"tomorrow", "Z">>))))

\* bodies of an answer to the alerts request
AlertBodies ==
    { JDict("features" :> JList(<<F_full, F_sparse>>)),
      JDict("features" :> JList(<<F_bare, F_late>>)),
      JDict("features" :> JList(<<>>)),
      JDict("title" :> JStr(T("no features"))),
      JDict("features" :> JNull),
      JDict("features" :> JStr(T("none"))),
      JList(<<>>),
      JDict("features" :> JList(<<F_full, F_nullprops>>)) }

CountyUrl == <<"https:", "/", "/", "api.weather.gov", "/", "zones", "/", "county", "/", "FLC105">>

\* bodies of an answer to the /points lookup
PointBodies ==
    { JDict("properties" :> JDict("county" :> JStr(CountyUrl))),
      JDict("properties" :> JDict("county" :> JStr(T("FLZ063")))),
      JDict("properties" :> JDict("cwa" :> JStr(T("TBW")))),
      JDict("properties" :> JDict("county" :> JNull)),
      JDict("title" :> JStr(T("no properties"))),
      JDict("properties" :> JNull),
      JDict("properties" :> JDict("county" :> JNum(105))) }

\* every way an exchange can end
Answers(bodies) ==
    { [net |-> n, code |-> 0, json |-> FALSE, doc |-> JNull] :
        n \in {"Timeout", "ConnectionError"} }
    \cup { [net |-> "ok", code |-> c, json |-> FALSE, doc |-> JNull] : c \in {200, 503} }
    \cup { [net |-> "ok", code |-> 200, json |-> TRUE, doc |-> d] : d \in bodies }

\* a few of them: the bodies given and a failure
FewAnswers(bodies) ==
    { [net |-> "Timeout", code |-> 0, json |-> FALSE, doc |-> JNull] }
    \cup { [net |-> "ok", code |-> 200, json |-> TRUE, doc |-> d] : d \in bodies }

FewAlertBodies ==
    { JDict("features" :> JList(<<F_full, F_sparse>>)),
      JDict("features" :> JList(<<F_bare>>)) }

FewPointBodies ==
    { JDict("properties" :> JDict("county" :> JStr(CountyUrl))) }

\* the environments: the stored settings, the values the user gives the
\* widgets, and the answers of the provider
UserEnv ==
    [settings |-> LoadedSettings(WidgetValues),
     values |-> WidgetValues,
     alerts |-> FewAnswers(FewAlertBodies),
     points |-> FewAnswers(FewPointBodies)]

ProviderEnv ==
    [settings |-> LoadedSettings(ProviderWidgetValues),
     values |-> ProviderWidgetValues,
     alerts |-> Answers(AlertBodies),
     points |-> Answers(PointBodies)]

\* zone mode with auto-refresh off: the lookup gets every answer, the user
\* moves the map and asks for a refresh
ZoneEnv ==
    [settings |-> LoadedSettings(ZoneWidgetValues),
     values |-> ZoneWidgetValues,
     alerts |-> FewAnswers(FewAlertBodies),
     points |-> Answers(PointBodies)]

\* the user works the map widgets, in state or point mode with auto-refresh
\* off; the stored file may hold a zoom outside the range of the spin box
MapEnv ==
    [settings |-> ZoomSettings(MapWidgetValues, {0, 5, 13}),
     values |-> MapWidgetValues,
     alerts |-> FewAnswers(FewAlertBodies),
     points |-> FewAnswers(FewPointBodies)]

-----------------------------------------------------------------------------
(* Handlers: the calls a handler makes, run until requests.get blocks *)

NoFrame == [pc |-> "none"]
NoPass == [result |-> "none"]
Trigger(cause, deferred) == [cause |-> cause, deferred |-> deferred]
NoTrigger == Trigger("none", FALSE)

\* the calls of a handler, in order
OpSet(k, v) == [op |-> "set", k |-> k, v |-> v]
OpUpdateMap == [op |-> "update_map"]
OpConfigure == [op |-> "configure_alert_timer"]
OpFetch == [op |-> "fetch_alerts"]

\* lines 83-85 of __init__
InitOps == <<OpUpdateMap, OpConfigure, OpFetch>>

\* lines 409-427 of reset_defaults
reset_defaults ==
    << OpSet("lat", DEFAULTS.lat), OpSet("lon", DEFAULTS.lon),
       OpSet("zoom", DEFAULTS.zoom), OpSet("layer", DEFAULTS.layer),
       OpSet("c", DEFAULTS.c), OpSet("o", DEFAULTS.o),
       OpSet("lm", DEFAULTS.lm), OpSet("sm", DEFAULTS.sm),
       OpSet("sn", DEFAULTS.sn), OpSet("ts", DEFAULTS.ts),
       OpSet("alerts_auto", DEFAULTS.alerts_auto),
       OpSet("alerts_interval", DEFAULTS.alerts_interval_sec),
       OpSet("alerts_mode", DEFAULTS.alerts_mode),
       OpSet("alerts_area", DEFAULTS.alerts_area),
       OpSet("ua_input", DEFAULTS.alerts_user_agent),
       OpUpdateMap, OpFetch >>

\* live_update without its point-mode refresh
live_update_maponly(u) == <<OpUpdateMap>>

\* live_update, the widgets holding u
live_update(u) ==
    <<OpUpdateMap>> \o (IF u.alerts_mode = "point" THEN <<OpFetch>> ELSE <<>>)

\* the slot connected to the change signal of widget k (lines 214-227)
Slot(k, u) ==
    CASE k \in LiveKeys -> live_update(u)
      [] k \in {"alerts_auto", "alerts_interval"} -> <<OpConfigure>>
      [] OTHER -> <<>>

\* configure_alert_timer without its else branch: the timer is never stopped
configure_alert_timer_nostop(tm, u) ==
    IF u.alerts_auto
    THEN [active |-> TRUE, interval |-> u.alerts_interval * 1000, elapsed |-> 0]
    ELSE tm

\* configure_alert_timer leaving a running timer at its old period
configure_alert_timer_keepperiod(tm, u) ==
    IF u.alerts_auto
    THEN IF tm.active THEN [tm EXCEPT !.elapsed = 0]
         ELSE [active |-> TRUE, interval |-> u.alerts_interval * 1000, elapsed |-> 0]
    ELSE [active |-> FALSE, interval |-> tm.interval, elapsed |-> 0]

\* configure_alert_timer changing the period of a running timer without
\* restarting its countdown
configure_alert_timer_keepelapsed(tm, u) ==
    IF u.alerts_auto
    THEN [active |-> TRUE, interval |-> u.alerts_interval * 1000,
          elapsed |-> IF tm.active THEN Min(tm.elapsed, u.alerts_interval * 1000) ELSE 0]
    ELSE [active |-> FALSE, interval |-> tm.interval, elapsed |-> 0]

\* configure_alert_timer: the timer after the call
configure_alert_timer(tm, u) ==
    IF u.alerts_auto
    THEN [active |-> TRUE, interval |-> u.alerts_interval * 1000, elapsed |-> 0]
    ELSE [active |-> FALSE, interval |-> tm.interval, elapsed |-> 0]

\* update_map showing the URL of the default parameters
update_map_defaults(u) ==
    build_src([u EXCEPT !.lat = DEFAULTS.lat, !.lon = DEFAULTS.lon,
                        !.zoom = DEFAULTS.zoom])

\* update_map
update_map(u) == build_src(u)

\* The calls ops run on widgets u, map w and timer tm, up to the first
\* fetch_alerts (fetch = TRUE, rest = the calls after it) or to the end.
\* A widget setter emits its change signal, and the slot runs before the
\* setter returns, only when the value changes.
RECURSIVE Run(_, _, _, _)
Run(u, w, tm, ops) ==
    IF ops = <<>>
    THEN [ui |-> u, web |-> w, timer |-> tm, fetch |-> FALSE, rest |-> <<>>]
    ELSE LET op == Head(ops)
             rest == Tail(ops)
         IN  CASE op.op = "set" ->
                     IF u[op.k] = op.v THEN Run(u, w, tm, rest)
                     ELSE LET u2 == [u EXCEPT ![op.k] = op.v]
                          IN  Run(u2, w, tm, Slot(op.k, u2) \o rest)
               [] op.op = "update_map" -> Run(u, update_map(u), tm, rest)
               [] op.op = "configure_alert_timer" ->
                     Run(u, w, configure_alert_timer(tm, u), rest)
               [] op.op = "fetch_alerts" ->
                     [ui |-> u, web |-> w, timer |-> tm, fetch |-> TRUE, rest |-> rest]

\* the first request of a pass of fetch_alerts (lines 303-326)
FirstRequest(u) ==
    LET mode == u.alerts_mode IN
    CASE mode = "point" -> Request(PointUrl(u), nws_headers(u), 15, "primary")
      [] mode = "state" -> Request(AreaUrl(u), nws_headers(u), 15, "primary")
      [] mode = "zone" ->
            Request(PointsUrl(Fmt4(u.lat), Fmt4(u.lon)), nws_headers(u), 10, "aux")
      [] OTHER -> Request(AllUrl, nws_headers(u), 15, "primary")

\* the locals of fetch_alerts while it waits for the answer to req
FrameOf(u, req) ==
    IF req.role = "aux"
    THEN [pc |-> "aux", lat |-> Fmt4(u.lat), lon |-> Fmt4(u.lon)]
    ELSE [pc |-> "primary", url |-> req.url]

\* fetch_alerts sending the alerts request of zone mode together with the lookup
fetch_alerts_eager(u) ==
    {FirstRequest(u)}
    \cup (IF u.alerts_mode = "zone"
          THEN {Request(ZoneFallbackUrl(Fmt4(u.lat), Fmt4(u.lon)), nws_headers(u), 15,
                        "primary")}
          ELSE {})

\* fetch_alerts is entered with widgets u: the requests it has sent when the
\* thread blocks in requests.get
fetch_alerts(u) == {FirstRequest(u)}

\* a handler making the calls ops, started by tr, with the timer at tm
Handler(tm, ops, tr) ==
    LET r == Run(ui, web, tm, ops) IN
    /\ ui' = r.ui
    /\ web' = r.web
    /\ alert_timer' = r.timer
    /\ IF r.fetch
       THEN /\ inflight' = inflight \cup fetch_alerts(r.ui)
            /\ frame' = FrameOf(r.ui, FirstRequest(r.ui))
            /\ log' = [i \in 1..Cardinality(fetch_alerts(r.ui)) |->
                         <<"send", SetToSeq({q.role : q \in fetch_alerts(r.ui)})[i]>>]
            /\ trig' = tr
            /\ todo' = r.rest
       ELSE /\ todo' = <<>>
            /\ trig' = NoTrigger
            /\ UNCHANGED <<inflight, frame, log>>
    /\ UNCHANGED <<alerts_view, alerts_status, done>>

\* the state when __init__ blocks in its fetch_alerts (line 85)
InitIn(E) ==
    \E s \in E.settings :
       LET r == Run(build_ui(s), [base |-> <<>>, query |-> <<>>],
                    [active |-> FALSE, interval |-> 0, elapsed |-> 0], InitOps)
       IN  /\ ui = r.ui
           /\ web = r.web
           /\ alert_timer = r.timer
           /\ alerts_view = <<>>
           /\ alerts_status = [text |-> "-"]
           /\ inflight = fetch_alerts(r.ui)
           /\ frame = FrameOf(r.ui, FirstRequest(r.ui))
           /\ todo = r.rest
           /\ queued = <<>>
           /\ trig = Trigger("initial", FALSE)
           /\ log = << <<"send", FirstRequest(r.ui).role>> >>
           /\ done = NoPass

\* the GUI thread is in no handler: the event loop takes the next event
Idle == inflight = {} /\ todo = <<>>

\* fetch_alerts has returned to a handler with calls left: it makes them
Continue ==
    /\ inflight = {}
    /\ todo # <<>>
    /\ Handler(alert_timer, todo, trig)
    /\ UNCHANGED queued

\* the user edits one of the ten map widgets
ChangeParam(E) ==
    /\ Idle /\ queued = <<>>
    /\ \E k \in LiveKeys : \E v \in E.values[k] \ {ui[k]} :
          Handler(alert_timer, <<OpSet(k, v)>>, Trigger("live_update", FALSE))
    /\ UNCHANGED queued

\* the user toggles Auto-refresh or edits the interval
ChangeTimerSetting(E) ==
    /\ Idle /\ queued = <<>>
    /\ \E k \in {"alerts_auto", "alerts_interval"} : \E v \in E.values[k] \ {ui[k]} :
          Handler(alert_timer, <<OpSet(k, v)>>, NoTrigger)
    /\ UNCHANGED queued

\* the user picks a mode or a state, or edits the User-Agent
ChangeAlertSetting(E) ==
    /\ Idle /\ queued = <<>>
    /\ \E k \in PlainKeys : \E v \in E.values[k] \ {ui[k]} :
          Handler(alert_timer, <<OpSet(k, v)>>, NoTrigger)
    /\ UNCHANGED queued

\* "Update Map"
UpdateMapClicked ==
    /\ Idle /\ queued = <<>>
    /\ Handler(alert_timer, <<OpUpdateMap>>, NoTrigger)
    /\ UNCHANGED queued

\* "Refresh Now" restarting the timer before it fetches
RefreshNow_restart ==
    /\ Idle /\ queued = <<>>
    /\ Handler(alert_timer, <<OpConfigure, OpFetch>>, Trigger("refresh", FALSE))
    /\ UNCHANGED queued

\* "Refresh Now"
RefreshNow ==
    /\ Idle /\ queued = <<>>
    /\ Handler(alert_timer, <<OpFetch>>, Trigger("refresh", FALSE))
    /\ UNCHANGED queued

\* "Reset Defaults"
ResetDefaults ==
    /\ Idle /\ queued = <<>>
    /\ Handler(alert_timer, reset_defaults, Trigger("reset", FALSE))
    /\ UNCHANGED queued

\* "Refresh Now" is clicked while the thread is blocked in requests.get: the
\* click waits in the event queue (the window is not shown during __init__)
ClickWhileBlocked ==
    /\ inflight # {}
    /\ trig.cause # "initial"
    /\ Len(queued) < MaxQueued
    /\ queued' = Append(queued, "refresh")
    /\ UNCHANGED <<ui, web, alert_timer, alerts_view, alerts_status, inflight,
                   frame, todo, trig, log, done>>

\* back in the event loop, the waiting click is delivered
DeliverClick ==
    /\ Idle /\ queued # <<>>
    /\ queued' = Tail(queued)
    /\ Handler(alert_timer, <<OpFetch>>, Trigger("refresh", TRUE))

\* time passes; a running timer comes closer to its timeout
Tick ==
    /\ alert_timer.active
    /\ alert_timer.elapsed < alert_timer.interval
    /\ alert_timer' = [alert_timer EXCEPT
                          !.elapsed = Min(@ + TickSeconds * 1000, alert_timer.interval)]
    /\ UNCHANGED <<ui, web, alerts_view, alerts_status, inflight, frame, todo,
                   queued, trig, log, done>>

\* the timeout not delivered once a pass has failed
Timeout_stopsOnError ==
    /\ Idle
    /\ done.result # "error"
    /\ alert_timer.active
    /\ alert_timer.elapsed >= alert_timer.interval
    /\ Handler([alert_timer EXCEPT !.elapsed = 0], <<OpFetch>>, Trigger("timeout", FALSE))
    /\ UNCHANGED queued

\* timeout connected to fetch_alerts twice
Timeout_twice ==
    /\ Idle
    /\ alert_timer.active
    /\ alert_timer.elapsed >= alert_timer.interval
    /\ Handler([alert_timer EXCEPT !.elapsed = 0], <<OpFetch, OpFetch>>,
               Trigger("timeout", FALSE))
    /\ UNCHANGED queued

\* the event loop emits alert_timer.timeout, connected to fetch_alerts; the
\* timer starts its next period
Timeout ==
    /\ Idle
    /\ alert_timer.active
    /\ alert_timer.elapsed >= alert_timer.interval
    /\ Handler([alert_timer EXCEPT !.elapsed = 0], <<OpFetch>>, Trigger("timeout", FALSE))
    /\ UNCHANGED queued

-----------------------------------------------------------------------------
(* The answers arrive: the rest of fetch_alerts *)

\* line 318: county = j.get("properties", {}).get("county")
CountyOf(j) ==
    LET p == PyGet(j, "properties", EmptyDict) IN
    IF ~p.ok THEN p ELSE PyGet(p.val, "county", JNull)

\* lines 319-322: the URL zone mode queries
ResolveZone(county, lat, lon) ==
    IF Truthy(county)
    THEN IF county.t = "str" THEN Ok(ZoneUrl(county.s))
         ELSE Raise("AttributeError",
                    [m |-> "object has no attribute 'split'", of |-> county.t])
    ELSE Ok(ZoneFallbackUrl(lat, lon))

\* str(e)
Str(e) == e.msg

\* line 333 without the exception's text
ErrorStatus_generic(e) == [text |-> "Alerts error", msg |-> [m |-> "failed"]]

\* line 333
ErrorStatus(e) == [text |-> "Alerts error", msg |-> Str(e)]

\* line 331
CountStatus(count, url) == [text |-> "NWS alerts", count |-> count, source |-> url]

\* lines 326-333 once requests.get has returned or raised: the tree, the
\* status line, the exception caught (if any) and the body parsed (if any)
FinishFetch(old, resp, url) ==
    LET x == Exchange(resp, url) IN
    IF ~x.ok
    THEN [view |-> old, status |-> ErrorStatus(x), exc |-> x, data |-> JNull]
    ELSE LET pop == populate_alerts(old, x.val)
             cnt == CountFeatures(x.val)
         IN  IF ~pop.res.ok
             THEN [view |-> pop.view, status |-> ErrorStatus(pop.res),
                   exc |-> pop.res, data |-> x.val]
             ELSE IF ~cnt.ok
             THEN [view |-> pop.view, status |-> ErrorStatus(cnt),
                   exc |-> cnt, data |-> x.val]
             ELSE [view |-> pop.view, status |-> CountStatus(cnt.val, url),
                   exc |-> Ok(JNull), data |-> x.val]

\* the lookup answered, a failed exchange treated like a lookup without a
\* county: the pass goes on with the point query
RecvAux_fallback(E) ==
    \E req \in inflight : \E resp \in E.points :
       /\ req.role = "aux"
       /\ frame.pc = "aux"
       /\ LET x == Exchange(resp, req.url)
              c == IF x.ok THEN CountyOf(x.val) ELSE Ok(JNull)
              z == IF c.ok THEN ResolveZone(c.val, frame.lat, frame.lon) ELSE c
          IN  IF z.ok
              THEN /\ inflight' = (inflight \ {req})
                                  \cup {Request(z.val, nws_headers(ui), 15, "primary")}
                   /\ frame' = [pc |-> "primary", url |-> z.val, county |-> c.val]
                   /\ log' = log \o << <<"recv", "aux">>, <<"send", "primary">> >>
                   /\ UNCHANGED <<alerts_status, done, trig>>
              ELSE /\ inflight' = inflight \ {req}
                   /\ frame' = NoFrame
                   /\ log' = Append(log, <<"recv", "aux">>)
                   /\ alerts_status' = ErrorStatus(z)
                   /\ done' = [result |-> "error", stage |-> "aux", exc |-> z,
                               data |-> JNull, deferred |-> trig.deferred]
                   /\ trig' = IF todo = <<>> THEN NoTrigger ELSE trig
       /\ UNCHANGED <<ui, web, alert_timer, alerts_view, todo, queued>>

\* the /points lookup of zone mode is answered
RecvAux(E) ==
    \E req \in inflight : \E resp \in E.points :
       /\ req.role = "aux"
       /\ frame.pc = "aux"
       /\ LET x == Exchange(resp, req.url)
              c == IF x.ok THEN CountyOf(x.val) ELSE x
              z == IF c.ok THEN ResolveZone(c.val, frame.lat, frame.lon) ELSE c
          IN  IF z.ok
              THEN /\ inflight' = (inflight \ {req})
                                  \cup {Request(z.val, nws_headers(ui), 15, "primary")}
                   /\ frame' = [pc |-> "primary", url |-> z.val, county |-> c.val]
                   /\ log' = log \o << <<"recv", "aux">>, <<"send", "primary">> >>
                   /\ UNCHANGED <<alerts_status, done, trig>>
              ELSE /\ inflight' = inflight \ {req}
                   /\ frame' = NoFrame
                   /\ log' = Append(log, <<"recv", "aux">>)
                   /\ alerts_status' = ErrorStatus(z)
                   /\ done' = [result |-> "error", stage |-> "aux", exc |-> z,
                               data |-> JNull, deferred |-> trig.deferred]
                   /\ trig' = IF todo = <<>> THEN NoTrigger ELSE trig
       /\ UNCHANGED <<ui, web, alert_timer, alerts_view, todo, queued>>

\* the alerts request is answered
RecvPrimary(E) ==
    \E req \in inflight : \E resp \in E.alerts :
       /\ req.role = "primary"
       /\ frame.pc = "primary"
       /\ LET out == FinishFetch(alerts_view, resp, frame.url) IN
          /\ alerts_view' = out.view
          /\ alerts_status' = out.status
          /\ done' = [result |-> IF out.exc.ok THEN "ok" ELSE "error",
                      stage |-> "primary", exc |-> out.exc, data |-> out.data,
                      deferred |-> trig.deferred]
       /\ inflight' = inflight \ {req}
       /\ frame' = NoFrame
       /\ log' = Append(log, <<"recv", "primary">>)
       /\ trig' = IF todo = <<>> THEN NoTrigger ELSE trig
       /\ UNCHANGED <<ui, web, alert_timer, todo, queued>>

-----------------------------------------------------------------------------

NextIn(E) ==
    \/ Continue
    \/ ChangeParam(E)
    \/ ChangeTimerSetting(E)
    \/ ChangeAlertSetting(E)
    \/ UpdateMapClicked
    \/ RefreshNow
    \/ ResetDefaults
    \/ ClickWhileBlocked
    \/ DeliverClick
    \/ Tick
    \/ Timeout
    \/ RecvAux(E)
    \/ RecvPrimary(E)

\* the user works all widgets, the provider gives few answers
Init == InitIn(UserEnv)
Next == NextIn(UserEnv)
Spec == Init /\ [][Next]_vars

\* the provider gives every answer, the user changes few widgets
InitProvider == InitIn(ProviderEnv)
NextProvider == NextIn(ProviderEnv)
SpecProvider == InitProvider /\ [][NextProvider]_vars

\* the user works the map: the map widgets are edited, the mode and the
\* state are picked, "Update Map" and "Refresh Now" are clicked
InitMap == InitIn(MapEnv)
NextMap ==
    \/ RecvPrimary(MapEnv)
    \/ ChangeParam(MapEnv)
    \/ ChangeAlertSetting(MapEnv)
    \/ UpdateMapClicked
    \/ RefreshNow
SpecMap == InitMap /\ [][NextMap]_vars

\* zone mode: the lookup and the alerts request are answered, the latitude
\* is edited, "Refresh Now" is clicked
InitZone == InitIn(ZoneEnv)
NextZone ==
    \/ RecvAux(ZoneEnv)
    \/ RecvPrimary(ZoneEnv)
    \/ ChangeParam(ZoneEnv)
    \/ RefreshNow
SpecZone == InitZone /\ [][NextZone]_vars

-----------------------------------------------------------------------------
(* Properties *)

\* a fetch pass is running: a request is out and not yet answered
Fetching == inflight # {}

\* the running pass is one of zone mode: it began with the /points lookup
ZonePass == log # <<>> /\ log[1] = <<"send", "aux">>

\* C1 as stated: with auto-refresh off, no fetch pass runs that was not asked
\* for by a refresh request (the button, a map change in point mode, a reset).
C1_OnlyOnRequest ==
    (Fetching /\ ~ui.alerts_auto) =>
        trig.cause \in {"refresh", "live_update", "reset"}

\* C1 amended: every fetch pass is the one initial pass of construction, or
\* was asked for by a refresh request, or was started by a timeout of the
\* timer; a timeout pass runs only with auto-refresh on and the timer
\* active, and the initial pass is the first pass of all.
C1_FetchNeedsTrigger ==
    Fetching =>
        /\ trig.cause \in {"initial", "refresh", "live_update", "reset", "timeout"}
        /\ trig.cause = "timeout" => (ui.alerts_auto /\ alert_timer.active)
        /\ trig.cause = "initial" => done = NoPass
        /\ ~ui.alerts_auto => trig.cause # "timeout"

C1_Witness ==
    /\ Fetching
    /\ ~ui.alerts_auto
    /\ trig.cause = "refresh"
    /\ done # NoPass

\* a pass started by a timeout is one pass: one request out, nothing left
\* to do in the handler, auto-refresh on and the timer running
C2_TimeoutPass ==
    (Fetching /\ trig.cause = "timeout") =>
        /\ Cardinality(inflight) = 1
        /\ todo = <<>>
        /\ Len(SelectSeq(log, LAMBDA ev : ev = <<"send", "primary">>)) <= 1
        /\ ui.alerts_auto
        /\ alert_timer.active

\* the period of the running timer restarts only by starting a timeout pass
C2_PeriodRestart ==
    (/\ alert_timer.active
     /\ alert_timer.elapsed >= alert_timer.interval
     /\ alert_timer' = [alert_timer EXCEPT !.elapsed = 0])
    => (/\ trig'.cause = "timeout"
        /\ Cardinality(inflight') = 1
        /\ inflight = {})

\* a timeout pass starts only when the running timer's period is over
C2_OnlyWhenDue ==
    (~Fetching /\ Fetching' /\ trig'.cause = "timeout")
    => (/\ alert_timer.active
        /\ alert_timer.elapsed >= alert_timer.interval
        /\ alert_timer'.elapsed = 0)

\* C2: while auto-refresh is on, each timeout of the timer starts exactly one
\* fetch pass (never none, never two) and begins the next period; a timeout
\* pass starts only when the running timer's period is over, so none starts
\* while auto-refresh is off and the timer is stopped.
C2_OneFetchPerTimeout ==
    [](C2_TimeoutPass) /\ [][C2_PeriodRestart /\ C2_OnlyWhenDue]_vars

C2_Witness ==
    /\ Fetching
    /\ trig.cause = "timeout"
    /\ alert_timer.interval = 60000
    /\ done.result = "ok"

\* C3: in a zone-mode pass at most one request is out at any time, and the
\* alerts request is sent only after the /points lookup was answered.
C3_ZoneSequencing ==
    /\ Cardinality(inflight) <= 1
    /\ (Fetching /\ ui.alerts_mode = "zone") => ZonePass
    /\ ZonePass =>
          \A i \in 1..Len(log) :
             log[i] = <<"send", "primary">> =>
                \E j \in 1..(i - 1) : log[j] = <<"recv", "aux">>

C3_Witness ==
    /\ ZonePass
    /\ log = << <<"send", "aux">>, <<"recv", "aux">>, <<"send", "primary">> >>
    /\ \E q \in inflight : q.role = "primary"

\* the request point mode sends for the widgets u
PointModeQuery(u) == FirstRequest([u EXCEPT !.alerts_mode = "point"]).url

\* text v is what follows the last "/" of text s (all of s when it has none)
AfterLastSlash(v, s) ==
    /\ Len(v) <= Len(s)
    /\ v = SubSeq(s, Len(s) - Len(v) + 1, Len(s))
    /\ \A i \in 1..Len(v) : v[i] # "/"
    /\ Len(v) < Len(s) => s[Len(s) - Len(v)] = "/"

\* C4: in a zone-mode pass the alerts request is the point-mode request for
\* the same coordinates when the lookup gave no county, and is keyed by the
\* county's zone identifier when it gave one.
C4_ZoneQuery ==
    (ZonePass /\ frame.pc = "primary") =>
        /\ \A q \in inflight : q.url = frame.url
        /\ IF Truthy(frame.county)
           THEN /\ frame.url.path = "/alerts/active"
                /\ frame.url.key = "zone"
                /\ AfterLastSlash(frame.url.val, frame.county.s)
           ELSE frame.url = PointModeQuery(ui)

C4_Witness ==
    /\ ZonePass
    /\ frame.pc = "primary"
    /\ ~Truthy(frame.county)
    /\ ui.lat # DEFAULTS.lat
    /\ \E q \in inflight : q.url = PointModeQuery(ui)

\* the kind of failure an exception class stands for
FailureKind(cls) ==
    CASE cls \in {"Timeout", "ConnectionError"} -> "NetworkError"
      [] cls = "HTTPError" -> "HTTPStatusError"
      [] OTHER -> "MalformedResponseError"

\* the kind of failure a status message tells of
MessageKind(msg) ==
    CASE msg.m \in {"Read timed out", "Failed to establish a new connection"} ->
            "NetworkError"
      [] msg.m = "Error for url" /\ "code" \in DOMAIN msg -> "HTTPStatusError"
      [] msg.m \in {"Expecting value", "object has no attribute 'get'",
                    "object has no attribute 'split'", "object is not iterable",
                    "object has no len()",
                    "QTreeWidgetItem: unsupported argument"} ->
            "MalformedResponseError"
      [] OTHER -> "unknown"

PassEnds == frame.pc # "none" /\ frame'.pc = "none"

\* C6 as stated: a pass that ends in an error leaves the rows of the tree,
\* the widgets and the timer as they were; only the status line changes.
C6_ErrorTouchesStatusOnly ==
    [][(PassEnds /\ done'.result = "error") =>
          (/\ alerts_view' = alerts_view
           /\ ui' = ui
           /\ alert_timer' = alert_timer
           /\ web' = web)]_vars

\* the features of a body that count as records: those of a "features"
\* array; an absent or non-array "features" counts as none
FeaturesOf(data) ==
    IF data.t = "dict" /\ "features" \in DOMAIN data.m /\ data.m["features"].t = "list"
    THEN data.m["features"].items
    ELSE <<>>

\* C7 as stated: the rows of the tree change only when a parsed body is
\* applied, and then they are one row per feature of that body, in order:
\* no row of an earlier body stays and no body is applied in part.
C7_WholesaleReplacement ==
    [][IF PassEnds /\ done'.data # JNull
       THEN /\ Len(alerts_view') = Len(FeaturesOf(done'.data))
            /\ \A i \in 1..Len(alerts_view') :
                  Ok(alerts_view'[i]) = MakeItem(FeaturesOf(done'.data)[i])
       ELSE alerts_view' = alerts_view]_vars

\* C8: a pass whose trigger arrived while another pass was waiting for its
\* answer runs after that pass, never beside it, and when it succeeds the
\* tree and the status line show its own answer, whatever the tree showed.
C8_LastWriteWins ==
    /\ trig.deferred => (Cardinality(inflight) <= 1 /\ done # NoPass)
    /\ (done.result = "ok" /\ done.deferred) =>
          /\ Len(alerts_view) = Len(FeaturesOf(done.data))
          /\ \A i \in 1..Len(alerts_view) :
                Ok(alerts_view[i]) = MakeItem(FeaturesOf(done.data)[i])
          /\ alerts_status.text = "NWS alerts"
          /\ alerts_status.count = Len(FeaturesOf(done.data))

C8_Witness ==
    /\ done.result = "ok"
    /\ done.deferred
    /\ Len(alerts_view) = 1
    /\ Idle

\* C9: when latitude, longitude or zoom changes in point mode, the same
\* handler starts a fetch pass whose request is the point query of the new
\* coordinates, and the timer is left as it was, active or not.
C9_PointFollowsMap ==
    [][(/\ ~Fetching
        /\ ui.alerts_mode = "point"
        /\ (ui'.lat # ui.lat \/ ui'.lon # ui.lon \/ ui'.zoom # ui.zoom))
       => (/\ Fetching'
           /\ \A q \in inflight' :
                 /\ q.role = "primary"
                 /\ q.url.key = "point"
                 /\ q.url.val = <<Fmt4(ui'.lat), Fmt4(ui'.lon)>>
           /\ alert_timer' = alert_timer)]_vars

C9_Witness ==
    /\ Fetching
    /\ trig.cause = "live_update"
    /\ ~alert_timer.active
    /\ ui.zoom # DEFAULTS.zoom
    /\ done # NoPass

\* the "features" of a body are absent, empty, or no array
NoFeatureArray(data) ==
    /\ data.t = "dict"
    /\ \/ "features" \notin DOMAIN data.m
       \/ data.m["features"].t # "list"
       \/ data.m["features"].items = <<>>

\* C10 as stated: a parsed body whose "features" are absent, empty or no
\* array ends the pass with no rows and a count of 0, never with an error.
C10_NoFeaturesIsEmptyFeed ==
    (done.result # "none" /\ done.data # JNull /\ NoFeatureArray(done.data)) =>
        /\ done.result = "ok"
        /\ alerts_view = <<>>
        /\ alerts_status.text = "NWS alerts"
        /\ alerts_status.count = 0

\* a step in which only time passes for the timer
TimePasses ==
    /\ alert_timer'.active = alert_timer.active
    /\ alert_timer'.interval = alert_timer.interval
    /\ alert_timer'.elapsed >= alert_timer.elapsed

\* C11: a click on Refresh Now is taken by the event loop whether the timer
\* runs or not; its handler starts exactly one fetch pass (one request out,
\* no call left) and leaves the timer as it was: active or not, its period
\* and the time run in the current period; and while that pass runs, up to
\* its end, nothing but the passing of time changes the timer.
C11_RefreshKeepsTimer ==
    /\ [](Idle /\ queued = <<>> => ENABLED RefreshNow)
    /\ [][(~Fetching /\ Fetching' /\ trig'.cause = "refresh")
             => (/\ alert_timer' = alert_timer
                 /\ Cardinality(inflight') = 1
                 /\ todo' = <<>>
                 /\ ui' = ui)]_vars
    /\ [][(Fetching /\ trig.cause = "refresh")
             => (/\ TimePasses
                 /\ ~Fetching' => (alert_timer' = alert_timer /\ done'.result # "none")
                 /\ Fetching' => trig' = trig)]_vars

C11_Witness ==
    /\ Fetching
    /\ trig.cause = "refresh"
    /\ alert_timer.active
    /\ alert_timer.elapsed > 0
    /\ alert_timer.elapsed < alert_timer.interval
    /\ \E i \in 1..Len(log) : log[i] = <<"recv", "aux">>

\* the four fields of a record that get the placeholder
PlaceholderFields == {"event", "severity", "urgency", "certainty"}

\* field k is missing from feature f
Missing(f, k) ==
    \/ f.t # "dict"
    \/ "properties" \notin DOMAIN f.m
    \/ f.m["properties"].t # "dict"
    \/ k \notin DOMAIN f.m["properties"].m

\* C12 as stated: when a parsed body with a "features" array has been
\* applied, nothing was raised, the tree holds exactly one row per feature,
\* in order, and each of event, severity, urgency, certainty that the feature
\* lacks shows the placeholder.
C12_NormalizeTotal ==
    (/\ done.result # "none"
     /\ done.data.t = "dict"
     /\ "features" \in DOMAIN done.data.m
     /\ done.data.m["features"].t = "list") =>
        LET feats == done.data.m["features"].items IN
        /\ done.result = "ok"
        /\ Len(alerts_view) = Len(feats)
        /\ \A i \in 1..Len(feats) : \A k \in PlaceholderFields :
              Missing(feats[i], k) => alerts_view[i][k] = Dash

\* the names of the parameters of a query, in order
QueryKeys(q) == [i \in 1..Len(q) |-> q[i][1]]

\* "1" if b else "0"
Flag(b) == IF b THEN "1" ELSE "0"

\* zoom values a caller of build_src may pass, in and out of the range
ZoomArgs == 0..13

\* C13: the URL shown is the map page with exactly the nine parameters loc,
\* oCS, c, o, lm, layer, sm, sn, ts in that order; loc packs latitude,
\* longitude (4 decimals) and a zoom within 1..12, oCS is 1, the flags are
\* 1 or 0; and build_src given a zoom outside 1..12 puts the nearest bound.
C13_MapUrl ==
    /\ web.base = T("https://www.rainviewer.com/map.html")
    /\ QueryKeys(web.query) = <<"loc", "oCS", "c", "o", "lm", "layer", "sm", "sn", "ts">>
    /\ web.query[1][2] = <<Fmt4(ui.lat), Fmt4(ui.lon), ui.zoom>>
    /\ web.query[1][2][3] \in 1..12
    /\ web.query[2][2] = "1"
    /\ web.query[3][2] = ui.c
    /\ web.query[4][2] = ui.o
    /\ web.query[5][2] = Flag(ui.lm)
    /\ web.query[6][2] = ui.layer
    /\ web.query[7][2] = Flag(ui.sm)
    /\ web.query[8][2] = Flag(ui.sn)
    /\ web.query[9][2] = ui.ts
    /\ \A z \in ZoomArgs :
          LET q == build_src([ui EXCEPT !.zoom = z]).query IN
          /\ QueryKeys(q) = QueryKeys(web.query)
          /\ q[1][2][3] = (IF z < 1 THEN 1 ELSE IF z > 12 THEN 12 ELSE z)

C13_Witness ==
    /\ Idle
    /\ ui.zoom = 12
    /\ ui.layer = "satellite"
    /\ ~ui.lm /\ ui.sm /\ ~ui.sn
    /\ web.query[1][2][3] = 12
    /\ web.query[5][2] = "0"
    /\ web.query[7][2] = "1"

\* the requests sent so far in the pass that runs or ran last
Sends == SelectSeq(log, LAMBDA ev : ev[1] = "send")

\* C14: a pass in state mode sends exactly one request, the alerts query
\* with area=<the state picked, as it is>, and never the /points lookup; a
\* pass in point mode sends exactly one request too, the alerts query with
\* point=<lat,lon>.
C14_OneRequest ==
    /\ (Fetching /\ ui.alerts_mode \in {"state", "point"}) =>
          /\ Cardinality(inflight) = 1
          /\ log = << <<"send", "primary">> >>
          /\ \A q \in inflight :
                /\ q.role = "primary"
                /\ q.url.base = NWS_API
                /\ q.url.path = "/alerts/active"
                /\ ui.alerts_mode = "state" =>
                      (q.url.key = "area" /\ q.url.val = ui.alerts_area)
                /\ ui.alerts_mode = "point" =>
                      (q.url.key = "point"
                       /\ q.url.val = <<Fmt4(ui.lat), Fmt4(ui.lon)>>)
    /\ ~ZonePass =>
          /\ Len(Sends) <= 1
          /\ \A i \in 1..Len(log) : log[i][2] = "primary"

C14_Witness ==
    /\ done.result # "none"
    /\ Fetching
    /\ ui.alerts_mode = "state"
    /\ ui.alerts_area = T("PR")
    /\ \E q \in inflight : q.url.key = "area" /\ q.url.val = T("PR")

\* the tree and the status line show the body data of a pass that succeeded
ShowsFeed(view, status, data) ==
    /\ status.text = "NWS alerts"
    /\ status.count = Len(FeaturesOf(data))
    /\ Len(view) = Len(FeaturesOf(data))
    /\ \A i \in 1..Len(view) : Ok(view[i]) = MakeItem(FeaturesOf(data)[i])

\* C15: a pass that fails leaves the timer as it was, so a running timer
\* keeps running and its next timeout starts a new pass; after a failed
\* pass Refresh Now starts a new pass whether the timer runs or not; and
\* when a pass succeeds after a failed one, the error status gives way to
\* the count and the rows of the new answer.
C15_RetryAfterError ==
    /\ [][(PassEnds /\ done'.result = "error") => alert_timer' = alert_timer]_vars
    /\ []((Idle /\ done.result = "error") =>
            /\ queued = <<>> => ENABLED RefreshNow
            /\ queued # <<>> => ENABLED DeliverClick
            /\ (alert_timer.active /\ alert_timer.elapsed < alert_timer.interval)
                  => ENABLED Tick
            /\ (alert_timer.active /\ alert_timer.elapsed >= alert_timer.interval)
                  => ENABLED Timeout)
    /\ [][(~Fetching /\ Fetching' /\ done.result = "error") =>
             (/\ Cardinality(inflight') = 1
              /\ trig'.cause \in {"refresh", "timeout", "live_update", "reset"})]_vars
    /\ [][(PassEnds /\ done.result = "error" /\ done'.result = "ok") =>
             ShowsFeed(alerts_view', alerts_status', done'.data)]_vars

C15_Witness ==
    /\ Fetching
    /\ done.result = "error"
    /\ done.exc.cls = "HTTPError"
    /\ alerts_status.text = "Alerts error"
    /\ trig.cause = "timeout"
    /\ alert_timer.active

\* C16 as stated: while a pass waits for its answer (the window is shown:
\* not the pass of the constructor), the events of the user and of the timer
\* are still handled: a map widget or an alert setting can be changed,
\* Refresh Now starts its pass, and a timer whose period is over times out.
C16_ResponsiveWhileFetching ==
    (Fetching /\ trig.cause # "initial") =>
        /\ ENABLED ChangeParam(UserEnv)
        /\ ENABLED ChangeAlertSetting(UserEnv)
        /\ ENABLED ChangeTimerSetting(UserEnv)
        /\ ENABLED RefreshNow
        /\ (alert_timer.active /\ alert_timer.elapsed >= alert_timer.interval)
              => ENABLED Timeout

\* the timer runs exactly when Auto-refresh is checked, with the period of
\* the interval box
TimerFollowsWidgets ==
    /\ alert_timer.active <=> ui.alerts_auto
    /\ alert_timer.active => alert_timer.interval = ui.alerts_interval * 1000

\* C17: in every state, whatever toggles, interval changes, map changes,
\* resets and fetches came before, the timer is active exactly when
\* auto-refresh is checked, and its period is then the interval of the box;
\* a change of the interval while the timer is inactive leaves it inactive.
C17_TimerFollowsAuto ==
    /\ []TimerFollowsWidgets
    /\ [][(~alert_timer.active
           /\ ui'.alerts_interval # ui.alerts_interval
           /\ ui'.alerts_auto = ui.alerts_auto) => ~alert_timer'.active]_vars

C17_Witness ==
    /\ Idle
    /\ done.result = "ok"
    /\ ui.alerts_auto
    /\ ui.alerts_interval = 60
    /\ alert_timer.active
    /\ alert_timer.interval = 60000
    /\ alert_timer.elapsed = 0
    /\ ui.lat # DEFAULTS.lat

\* C18: when the interval changes while the timer runs (auto-refresh stays
\* checked), the timer stays active, takes the new period and starts its
\* countdown again from zero: the time run in the interrupted period is
\* dropped; and a timeout comes only when a whole period has run.
C18_IntervalChangeRestarts ==
    /\ [][(/\ alert_timer.active
           /\ ui.alerts_auto /\ ui'.alerts_auto
           /\ ui'.alerts_interval # ui.alerts_interval)
          => (/\ alert_timer'.active
              /\ alert_timer'.interval = ui'.alerts_interval * 1000
              /\ alert_timer'.elapsed = 0)]_vars
    /\ [][(trig'.cause = "timeout" /\ trig.cause # "timeout")
          => alert_timer.elapsed >= alert_timer.interval]_vars
    /\ [](alert_timer.elapsed <= alert_timer.interval)

\* in the middle of a period of 120 s the interval is set to 60 s, and the
\* timer starts a period of 60 s from zero
C18_Witness ==
    /\ alert_timer.active
    /\ alert_timer.interval = 120000
    /\ alert_timer.elapsed > 0
    /\ alert_timer.elapsed < alert_timer.interval
    /\ ENABLED (/\ ChangeTimerSetting(UserEnv)
                /\ ui'.alerts_interval = 60
                /\ alert_timer' = [active |-> TRUE, interval |-> 60000, elapsed |-> 0])

\* the ten map parameters of the widgets u
MapParams(u) == [k \in LiveKeys |-> u[k]]

\* C19: in every state the URL shown is build_src of the current values of
\* the map widgets; a step that leaves the ten map widgets alone (a change
\* of an alert setting or of the timer, a tick, a timeout, an answer to a
\* fetch, good or bad) leaves the URL as it was.
C19_MapFollowsParams ==
    /\ [](web = build_src(ui))
    /\ [][MapParams(ui') = MapParams(ui) => web' = web]_vars
    /\ [][(alerts_view' # alerts_view \/ alerts_status' # alerts_status
           \/ done' # done) => (web' = web /\ ui' = ui)]_vars

C19_Witness ==
    /\ done.result = "error"
    /\ ui.alerts_mode = "state"
    /\ ui.lon = 1800000
    /\ ui.zoom = 12
    /\ web.query[1][2] = <<Fmt4(ui.lat), Fmt4(1800000), 12>>
    /\ alert_timer.active
    /\ alert_timer.elapsed > 0

\* timestamp k of the properties p is present and not empty
HasTime(p, k) == k \in DOMAIN p.m /\ Truthy(p.m[k])

\* the timestamps of p that are present and not empty, in the order of
\* priority: ends, expires, effective
TimesOf(p) ==
    SelectSeq(<<"ends", "expires", "effective">>, LAMBDA k : HasTime(p, k))

\* C20: after a pass that succeeded every feature has its row, and the time
\* column of the row comes from one timestamp of the feature, the first of
\* ends, expires, effective that is present and not empty: rendered when it
\* parses as an ISO time, and the raw text itself, unchanged, when it does
\* not.
C20_TimeField ==
    (done.result = "ok" /\ FeaturesOf(done.data) # <<>>) =>
        LET feats == FeaturesOf(done.data) IN
        /\ Len(alerts_view) = Len(feats)
        /\ \A i \in 1..Len(feats) :
              LET p == feats[i].m["properties"]
                  ts == TimesOf(p)
              IN  ts # <<>> =>
                     LET raw == p.m[ts[1]].s IN
                     IF IsIso(ReplaceZ(raw))
                     THEN /\ alerts_view[i].ends # raw
                          /\ alerts_view[i].ends = <<"%b %d %Y, %I:%M %p">> \o ReplaceZ(raw)
                     ELSE alerts_view[i].ends = raw

C20_Witness ==
    /\ done.result = "ok"
    /\ Len(alerts_view) = 2
    /\ alerts_view[2].event = T("Heat Advisory")
    /\ alerts_view[2].ends = <<"tomorrow", "Z">>

\* the exceptions of a failed exchange: no answer in time, no connection, a
\* status of 400 or more, a body that is no JSON
ExchangeFailures == {"Timeout", "ConnectionError", "HTTPError", "JSONDecodeError"}

\* C21: while a zone-mode pass waits for its /points lookup, each way the
\* lookup can fail (timeout, no connection, error status, body that is no
\* JSON) ends the pass there with that exception as its error; and a pass
\* that ends at the lookup has sent no alerts request: nothing is out, the
\* log holds the lookup alone, the status line shows the error and the tree
\* is as it was.  The alerts request follows only a lookup that was parsed.
C21_LookupFailureEndsPass ==
    /\ [](frame.pc = "aux" =>
            \A cls \in ExchangeFailures :
               ENABLED (/\ RecvAux(ZoneEnv)
                        /\ done'.result = "error"
                        /\ done'.stage = "aux"
                        /\ done'.exc.cls = cls
                        /\ frame' = NoFrame
                        /\ inflight' = {}))
    /\ [][(frame.pc = "aux" /\ frame'.pc # "aux") =>
             IF frame'.pc = "primary"
             THEN /\ done' = done
                  /\ alerts_status' = alerts_status
                  /\ "county" \in DOMAIN frame'
             ELSE /\ frame' = NoFrame
                  /\ inflight' = {}
                  /\ log' = << <<"send", "aux">>, <<"recv", "aux">> >>
                  /\ done'.result = "error"
                  /\ done'.stage = "aux"
                  /\ alerts_status' = ErrorStatus(done'.exc)
                  /\ alerts_view' = alerts_view]_vars
    /\ []((~Fetching /\ done.result = "error" /\ done.stage = "aux") =>
             /\ log = << <<"send", "aux">>, <<"recv", "aux">> >>
             /\ alerts_status = ErrorStatus(done.exc))

C21_Witness ==
    /\ ~Fetching
    /\ ui.alerts_mode = "zone"
    /\ done.result = "error"
    /\ done.stage = "aux"
    /\ done.exc.cls = "JSONDecodeError"
    /\ log = << <<"send", "aux">>, <<"recv", "aux">> >>
    /\ alerts_status.text = "Alerts error"
    /\ alerts_view # <<>>

====
